---- MODULE Spec2Model ----
(***************************************************************************)
(* PreViz (src/previz.py): the scene store kept in the Streamlit session   *)
(* state, the script run triggered by each widget event, and the pure      *)
(* helpers (duplicate_element, export_scene_json).                         *)
(*                                                                         *)
(* Conventions.                                                            *)
(*  - A Python str that the code takes apart (an element's name) is a      *)
(*    sequence of one-character strings; other strs are TLA+ strings.      *)
(*  - Lengths are integers counting half feet (every number_input of the   *)
(*    forms has step=0.5): Ft(2) is 2.0 ft, Half(9) is 4.5 ft.             *)
(*  - Python's None is the empty sequence <<>>; a value v that may be None *)
(*    is held as <<v>>.                                                    *)
(***************************************************************************)
EXTENDS Integers, Sequences, FiniteSets, TLC

VARIABLES
    scene_elements,   \* st.session_state.scene_elements: kind -> list of dicts
    scene_name,       \* st.session_state.scene_name
    view_mode,        \* st.session_state.view_mode
    editing_element,  \* st.session_state.editing_element: None or a list index
    editing_type,     \* st.session_state.editing_type: None, "Camera" or "Light"
    uploaded_file,    \* the file held by the "Load Scene" uploader, or None
    event,            \* the widget event that triggered the last script run
    error,            \* the exception that ended the last script run, "" if none
    runs,             \* the number of script runs of the session so far
    edit_clicked,     \* history: the element whose edit button was clicked
    h_kind,           \* duplicate_element harness: element_type
    h_src,            \* duplicate_element harness: element_data
    h_out,            \* duplicate_element harness: the returned element, or None
    h_n,              \* duplicate_element harness: applications so far
    v_elements,       \* output harness: scene_elements
    v_name,           \* output harness: scene_name
    v_mode,           \* output harness: the option of the "View Mode" radio
    v_fig,            \* output harness: the figure generate_3d_scene returned
    v_report          \* output harness: the report export_setup_report returned

appVars == <<scene_elements, scene_name, view_mode, editing_element,
             editing_type, uploaded_file, event, error, runs, edit_clicked>>
dupVars == <<h_kind, h_src, h_out, h_n>>
viewVars == <<v_elements, v_name, v_mode, v_fig, v_report>>
harnessVars == <<h_kind, h_src, h_out, h_n,
                 v_elements, v_name, v_mode, v_fig, v_report>>
vars == <<scene_elements, scene_name, view_mode, editing_element,
          editing_type, uploaded_file, event, error, runs, edit_clicked,
          h_kind, h_src, h_out, h_n,
          v_elements, v_name, v_mode, v_fig, v_report>>

None == <<>>
Some(v) == <<v>>

\* Lengths in half feet.
Half(n) == n
Ft(n) == 2 * n

(***************************************************************************)
(* Bounds of the model.                                                    *)
(***************************************************************************)
\* A session is followed for at most this many script runs.
MaxRuns == 4
\* Names of the duplicate_element harness are built from at most this many pieces.
MaxPieces == 3
\* The harness duplicates the copy of the copy ... at most this many times.
MaxIter == 3

(***************************************************************************)
(* Strings as sequences of characters.                                     *)
(***************************************************************************)
Digits == <<"0", "1", "2", "3", "4", "5", "6", "7", "8", "9">>
DigitChars == {Digits[i] : i \in 1..Len(Digits)}
\* A character str.isdigit() accepts and int() rejects (such as U+00B2).
SuperTwo == "sup2"
Space == " "

S_Copy == <<"C", "o", "p", "y">>
S_SpCopy == <<" ", "C", "o", "p", "y">>
S_KeyLight == <<"K", "e", "y", " ", "L", "i", "g", "h", "t">>

\* str(n) for n >= 0
RECURSIVE str(_)
str(n) ==
    IF n < 10 THEN <<Digits[n + 1]>>
    ELSE str(n \div 10) \o <<Digits[(n % 10) + 1]>>

DigitVal(c) == (CHOOSE i \in 1..Len(Digits) : Digits[i] = c) - 1

\* int(s) for s a non-empty sequence of decimal digits
RECURSIVE int(_)
int(s) ==
    IF Len(s) = 1 THEN DigitVal(s[1])
    ELSE 10 * int(SubSeq(s, 1, Len(s) - 1)) + DigitVal(s[Len(s)])

\* int(s) raises ValueError
int_raises(s) == \E i \in 1..Len(s) : s[i] \notin DigitChars

\* s.isdigit()
isdigit(s) ==
    /\ Len(s) > 0
    /\ \A i \in 1..Len(s) : s[i] \in DigitChars \cup {SuperTwo}

\* s.strip()
RECURSIVE lstrip(_)
lstrip(s) ==
    IF Len(s) > 0 /\ s[1] = Space THEN lstrip(Tail(s)) ELSE s
RECURSIVE rstrip(_)
rstrip(s) ==
    IF Len(s) > 0 /\ s[Len(s)] = Space THEN rstrip(SubSeq(s, 1, Len(s) - 1)) ELSE s
strip(s) == rstrip(lstrip(s))

\* pat occurs in s starting at index i
OccursAt(s, pat, i) ==
    /\ i >= 1
    /\ i + Len(pat) - 1 <= Len(s)
    /\ SubSeq(s, i, i + Len(pat) - 1) = pat

\* pat in s
Contains(s, pat) == \E i \in 1..Len(s) : OccursAt(s, pat, i)

\* s.rsplit(pat, 1): split at the last occurrence of pat
rsplit1(s, pat) ==
    IF ~Contains(s, pat) THEN <<s>>
    ELSE LET i == CHOOSE j \in 1..Len(s) :
                     /\ OccursAt(s, pat, j)
                     /\ \A k \in 1..Len(s) : OccursAt(s, pat, k) => k <= j
         IN  <<SubSeq(s, 1, i - 1), SubSeq(s, i + Len(pat), Len(s))>>

(***************************************************************************)
(* duplicate_element (src/previz.py 156-183).                              *)
(***************************************************************************)
\* The "Rename" block: the copy's name from the source's name.
RenameCopy(original_name) ==
    IF Contains(original_name, S_Copy)
    THEN LET parts == rsplit1(original_name, S_Copy)
         IN  IF Len(parts) = 2 /\ isdigit(strip(parts[2]))
             THEN IF int_raises(strip(parts[2]))
                  THEN original_name \o S_SpCopy                 \* except:
                  ELSE parts[1] \o S_Copy \o <<Space>>
                           \o str(int(strip(parts[2])) + 1)
             ELSE original_name \o S_SpCopy \o <<Space, "2">>
    ELSE original_name \o S_SpCopy

\* new_element = element_data: no copy, new_element is the same object.
no_copy(element_data) ==
    [ref |-> "element_data",
     heap |-> [element_data |-> element_data, new_element |-> element_data]]

\* copy.deepcopy(element_data): the objects after the call, new_element
\* being a fresh object equal to element_data.
deepcopy(element_data) ==
    [ref |-> "new_element",
     heap |-> [element_data |-> element_data, new_element |-> element_data]]

\* A copy offset that ignores the kind.
DupOffset_same(element_type) == Ft(1)

\* The position offset of a copy.
DupOffset(element_type) ==
    IF element_type = "cameras" THEN Ft(2) ELSE Ft(1)

\* duplicate_element(element_type, element_data): the returned element, and
\* element_data as the call leaves it.
duplicate_element(element_type, element_data) ==
    LET c == deepcopy(element_data)
        r == c.ref
        h1 == [c.heap EXCEPT ![r].x = @ + DupOffset(element_type),
                              ![r].y = @ + DupOffset(element_type)]
        h2 == [h1 EXCEPT ![r].name = RenameCopy(h1[r].name)]
    IN  [new_element |-> h2[r], element_data |-> h2.element_data]

(***************************************************************************)
(* Program data: the kinds, the presets, the names the code writes.        *)
(***************************************************************************)
\* The keys of scene_elements, in the order of the initial dict.
KindOrder == <<"cameras", "lights", "actors", "set_pieces", "vehicles",
               "screens", "green_screens">>
Kinds == {KindOrder[i] : i \in 1..Len(KindOrder)}

\* The names the add forms propose
S_Default ==
    [Camera_ |-> <<"C", "a", "m", "e", "r", "a", " ">>,
     Light_ |-> <<"L", "i", "g", "h", "t", " ">>,
     Actor_ |-> <<"A", "c", "t", "o", "r", " ">>,
     Furniture |-> <<"F", "u", "r", "n", "i", "t", "u", "r", "e">>,
     Car |-> <<"C", "a", "r">>,
     Monitor |-> <<"M", "o", "n", "i", "t", "o", "r">>,
     GreenScreen |-> <<"G", "r", "e", "e", "n", " ", "S", "c", "r", "e",
         "e", "n">>]
\* The names of the elements of the templates
S_Template ==
    [FillLight |-> <<"F", "i", "l", "l", " ", "L", "i", "g", "h", "t">>,
     BackLight |-> <<"B", "a", "c", "k", " ", "L", "i", "g", "h", "t">>,
     Subject |-> <<"S", "u", "b", "j", "e", "c", "t">>,
     MainCamera |-> <<"M", "a", "i", "n", " ", "C", "a", "m", "e", "r",
         "a">>,
     CameraAWide |-> <<"C", "a", "m", "e", "r", "a", " ", "A", " ", "(",
         "W", "i", "d", "e", ")">>,
     CameraBClose |-> <<"C", "a", "m", "e", "r", "a", " ", "B", " ", "(",
         "C", "l", "o", "s", "e", ")">>,
     CameraCOverShoulder |-> <<"C", "a", "m", "e", "r", "a", " ", "C", " ",
         "(", "O", "v", "e", "r", " ", "S", "h", "o", "u", "l", "d", "e",
         "r", ")">>,
     Interviewee |-> <<"I", "n", "t", "e", "r", "v", "i", "e", "w", "e",
         "e">>,
     InterviewChair |-> <<"I", "n", "t", "e", "r", "v", "i", "e", "w", " ",
         "C", "h", "a", "i", "r">>,
     MainGreenScreen |-> <<"M", "a", "i", "n", " ", "G", "r", "e", "e",
         "n", " ", "S", "c", "r", "e", "e", "n">>,
     SubjectKey |-> <<"S", "u", "b", "j", "e", "c", "t", " ", "K", "e",
         "y">>,
     SubjectFill |-> <<"S", "u", "b", "j", "e", "c", "t", " ", "F", "i",
         "l", "l">>,
     GreenScreenLightL |-> <<"G", "r", "e", "e", "n", " ", "S", "c", "r",
         "e", "e", "n", " ", "L", "i", "g", "h", "t", " ", "L">>,
     GreenScreenLightR |-> <<"G", "r", "e", "e", "n", " ", "S", "c", "r",
         "e", "e", "n", " ", "L", "i", "g", "h", "t", " ", "R">>]

\* chr(65 + n)
UpperCase == <<"A", "B", "C", "D", "E", "F", "G", "H", "I", "J", "K", "L",
               "M", "N", "O", "P", "Q", "R", "S", "T", "U", "V", "W", "X",
               "Y", "Z">>
chr65(n) == UpperCase[n + 1]

\* CAMERA_HEIGHT_PRESETS, in dict order
CAMERA_HEIGHT_PRESETS ==
    << [label |-> "Eye Level (5 ft)", z |-> Ft(5)],
       [label |-> "Shoulder Level (4.5 ft)", z |-> Half(9)],
       [label |-> "Chest Level (4 ft)", z |-> Ft(4)],
       [label |-> "Waist Level (3 ft)", z |-> Ft(3)],
       [label |-> "Low Angle (2 ft)", z |-> Ft(2)],
       [label |-> "Ground Level (0.5 ft)", z |-> Half(1)],
       [label |-> "High Angle (7 ft)", z |-> Ft(7)],
       [label |-> "Overhead (9 ft)", z |-> Ft(9)],
       [label |-> "Crane Height (12 ft)", z |-> Ft(12)] >>

\* The keys of FOV_PRESETS
L_Preset ==
    [k16mm |-> <<"1", "6", "m", "m", " ", "(", "U", "l", "t", "r", "a",
         " ", "W", "i", "d", "e", ")">>,
     k24mm |-> <<"2", "4", "m", "m", " ", "(", "W", "i", "d", "e", ")">>,
     k35mm |-> <<"3", "5", "m", "m", " ", "(", "S", "t", "a", "n", "d",
         "a", "r", "d", " ", "W", "i", "d", "e", ")">>,
     k50mm |-> <<"5", "0", "m", "m", " ", "(", "N", "o", "r", "m", "a",
         "l", ")">>,
     k85mm |-> <<"8", "5", "m", "m", " ", "(", "P", "o", "r", "t", "r",
         "a", "i", "t", ")">>,
     k135mm |-> <<"1", "3", "5", "m", "m", " ", "(", "T", "e", "l", "e",
         "p", "h", "o", "t", "o", ")">>,
     k200mm |-> <<"2", "0", "0", "m", "m", " ", "(", "S", "u", "p", "e",
         "r", " ", "T", "e", "l", "e", "p", "h", "o", "t", "o", ")">>]

\* FOV_PRESETS, in dict order: key and value
FOV_PRESETS ==
    << [key |-> L_Preset.k16mm, fov |-> 107],
       [key |-> L_Preset.k24mm, fov |-> 84],
       [key |-> L_Preset.k35mm, fov |-> 63],
       [key |-> L_Preset.k50mm, fov |-> 47],
       [key |-> L_Preset.k85mm, fov |-> 29],
       [key |-> L_Preset.k135mm, fov |-> 18],
       [key |-> L_Preset.k200mm, fov |-> 12] >>

\* s.split(pat)[0]: the text before the first occurrence of pat
split0(s, pat) ==
    IF ~Contains(s, pat) THEN s
    ELSE LET i == CHOOSE j \in 1..Len(s) :
                     /\ OccursAt(s, pat, j)
                     /\ \A k \in 1..Len(s) : OccursAt(s, pat, k) => j <= k
         IN  SubSeq(s, 1, i - 1)

\* int(focal_preset.split('mm')[0]) and FOV_PRESETS[focal_preset], for the
\* p-th preset of the selectbox
cam_focal(p) == int(split0(FOV_PRESETS[p].key, <<"m", "m">>))
cam_fov(p) == FOV_PRESETS[p].fov

LightTypes == <<"Key Light", "Fill Light", "Back Light", "LED Panel",
                "Practical", "Natural Light">>

(***************************************************************************)
(* Python lists and dicts.                                                 *)
(***************************************************************************)
\* list[i], 0 <= i < len(list)
At(list, i) == list[i + 1]
InRange(list, i) == 0 <= i /\ i < Len(list)
\* list.pop(): the last element goes, whatever i is.
pop_last(list, i) == SubSeq(list, 1, Len(list) - 1)
\* list.pop(i)
pop(list, i) == SubSeq(list, 1, i) \o SubSeq(list, i + 2, Len(list))
\* list.insert(0, e)
insert_front(list, e) == <<e>> \o list
\* list.append(e)
append(list, e) == Append(list, e)
\* every slot is assigned e
setitem_all(list, i, e) == [k \in 1..Len(list) |-> e]
\* list[i] = e
setitem(list, i, e) == [list EXCEPT ![i + 1] = e]

Ev(op, kind, id) == [op |-> op, kind |-> kind, id |-> id]

(***************************************************************************)
(* Serialization: export_scene_json and the "Load Scene" handler.          *)
(* A JSON text is held as the tree it denotes: [t |-> "object", v |-> f],  *)
(* [t |-> "array", v |-> seq], [t |-> "string", v |-> s],                  *)
(* [t |-> "number", v |-> n]. A file that is no JSON text has json FALSE.  *)
(***************************************************************************)
JStr(s) == [t |-> "string", v |-> s]
JNum(n) == [t |-> "number", v |-> n]
JArr(a) == [t |-> "array", v |-> a]
JObj(o) == [t |-> "object", v |-> o]

\* The element fields that hold a str; every other field holds a number.
StrFields == {"name", "type", "size", "notes"}

\* json.dumps of one element dict
dumps_element(e) ==
    JObj([k \in DOMAIN e |-> IF k \in StrFields THEN JStr(e[k]) ELSE JNum(e[k])])

RECURSIVE dumps_list(_)
dumps_list(list) ==
    IF Len(list) = 0 THEN <<>>
    ELSE <<dumps_element(Head(list))>> \o dumps_list(Tail(list))

\* json.dumps of the elements dict
dumps_elements(elems) ==
    JObj([k \in DOMAIN elems |-> JArr(dumps_list(elems[k]))])

\* An export that writes the scene name under the key "name".
export_name_key(created) ==
    [json |-> TRUE,
     text |-> JObj([name |-> JStr(scene_name),
                    created |-> JStr(created),
                    elements |-> dumps_elements(scene_elements),
                    version |-> JStr("3.5-phase1")])]

\* export_scene_json(), created being datetime.now().isoformat()
export_scene_json(created) ==
    [json |-> TRUE,
     text |-> JObj([scene_name |-> JStr(scene_name),
                    created |-> JStr(created),
                    elements |-> dumps_elements(scene_elements),
                    version |-> JStr("3.5-phase1")])]

\* json.loads of a JSON text
RECURSIVE json_loads(_)
RECURSIVE loads_array(_)
loads_array(a) ==
    IF Len(a) = 0 THEN <<>>
    ELSE <<json_loads(Head(a))>> \o loads_array(Tail(a))
json_loads(j) ==
    IF j.t = "object" THEN [k \in DOMAIN j.v |-> json_loads(j.v[k])]
    ELSE IF j.t = "array" THEN loads_array(j.v)
    ELSE j.v

\* The "Load Scene" block run on an uploaded file: the store it leaves and the
\* exception that ended it ("" when it reached st.rerun()).
LoadScene(elems, name, file) ==
    IF ~file.json
    THEN [scene_elements |-> elems, scene_name |-> name,
          error |-> "JSONDecodeError"]
    ELSE LET scene_data == json_loads(file.text)
         IN  IF "elements" \notin DOMAIN scene_data
             THEN [scene_elements |-> elems, scene_name |-> name,
                   error |-> "KeyError"]
             ELSE IF "scene_name" \notin DOMAIN scene_data
             THEN [scene_elements |-> scene_data.elements, scene_name |-> name,
                   error |-> "KeyError"]
             ELSE [scene_elements |-> scene_data.elements,
                   scene_name |-> scene_data.scene_name,
                   error |-> ""]

(***************************************************************************)
(* How far a script run gets. main() runs top to bottom: the sidebar (the  *)
(* edit form or the add forms, the templates, Clear), the view and the     *)
(* summary, the export buttons and the uploader, then the tabs. An         *)
(* exception ends the run where it is raised; st.rerun() ends it too.      *)
(***************************************************************************)
\* The exception raised while the edit form of a camera is built, "" if none.
EditCameraError(elems, i) ==
    IF "cameras" \notin DOMAIN elems THEN "KeyError"
    ELSE IF ~InRange(elems.cameras, i) THEN "IndexError"
    ELSE IF At(elems.cameras, i).rotation \notin 0..359
    THEN "StreamlitAPIException"
    ELSE ""

\* The exception raised while the edit form of a light is built, "" if none.
EditLightError(elems, i) ==
    IF "lights" \notin DOMAIN elems THEN "KeyError"
    ELSE IF ~InRange(elems.lights, i) THEN "IndexError"
    ELSE LET light == At(elems.lights, i)
         IN  IF \A t \in 1..Len(LightTypes) : LightTypes[t] # light.type
             THEN "ValueError"
             ELSE IF light.z < 0 \/ light.rotation \notin 0..359
                     \/ light.intensity \notin 0..100
             THEN "StreamlitAPIException"
             ELSE ""

\* The exception that ends the run in the sidebar, "" if the sidebar is built.
SidebarError(elems, ed, ty) ==
    IF ed = None THEN ""
    ELSE IF ty = Some("Camera") THEN EditCameraError(elems, ed[1])
    ELSE IF ty = Some("Light") THEN EditLightError(elems, ed[1])
    ELSE ""

\* The exception generate_3d_scene and the summary raise, "" if none: every
\* kind's list is read.
MainError(elems) ==
    IF Kinds \subseteq DOMAIN elems THEN "" ELSE "KeyError"

\* The run gets past the sidebar's edit / add section.
AfterSidebar == SidebarError(scene_elements, editing_element, editing_type) = ""
\* The run gets to the export buttons and the uploader.
ReachUploader == AfterSidebar /\ MainError(scene_elements) = ""
\* The run gets to the tabs: "Load Scene" ends every run that holds a file.
ReachTabs == ReachUploader /\ uploaded_file = None

\* One more script run of the session.
Tick == runs < MaxRuns /\ runs' = runs + 1

\* The rest of a run whose widget event changed no element: the scene name is
\* name, the radio shows vm, the uploader holds file.
Finish(name, vm, file, ev) ==
    LET e1 == SidebarError(scene_elements, editing_element, editing_type)
        e2 == MainError(scene_elements)
        r == IF e1 # ""
             THEN [scene_elements |-> scene_elements, scene_name |-> name,
                   error |-> e1]
             ELSE IF e2 # ""
             THEN [scene_elements |-> scene_elements, scene_name |-> name,
                   error |-> e2]
             ELSE IF file # None
             THEN LoadScene(scene_elements, name, file[1])
             ELSE [scene_elements |-> scene_elements, scene_name |-> name,
                   error |-> ""]
    IN  /\ Tick
        /\ scene_elements' = r.scene_elements
        /\ scene_name' = r.scene_name
        /\ error' = r.error
        /\ view_mode' = IF e1 = "" THEN vm ELSE view_mode
        /\ uploaded_file' = file
        /\ event' = ev
        /\ UNCHANGED <<editing_element, editing_type, edit_clicked>>
        /\ UNCHANGED harnessVars

\* A handler that replaces the elements and calls st.rerun().
Mutate(elems, ev) ==
    /\ Tick
    /\ scene_elements' = elems
    /\ event' = ev
    /\ error' = ""
    /\ UNCHANGED <<scene_name, view_mode, editing_element, editing_type,
                   uploaded_file, edit_clicked>>
    /\ UNCHANGED harnessVars

(***************************************************************************)
(* The values the user enters in the forms.                                *)
(***************************************************************************)
\* Slider positions of "Rotation"
RotationInputs == {0, 90}
\* Options of "Focal Length Preset" the user picks (indices into FOV_PRESETS)
FocalInputs == {1, 4}
\* Options of "Height Preset" the user picks
HeightInputs == {1}
\* Slider positions of "Intensity (%)"; the slider spans 0..100
IntensityInputs == {80, 0}
\* Options of the light "Type" the user picks (indices into LightTypes)
LightTypeInputs == {1}
\* The "Add movement arrow" checkbox
MovementInputs == {FALSE, TRUE}
\* Texts typed into "Scene Name"
SceneNameInputs == {"Take 2"}
\* Options of the "View Mode" radio
ViewModes == <<"Floor Plan", "Perspective (3D)", "Side View (3D)">>
\* Options of the radio the user picks (indices into ViewModes)
ViewModeInputs == {1, 3}

(***************************************************************************)
(* Sidebar: the add forms (src/previz.py 832-1048).                        *)
(***************************************************************************)
AddForm(kind) ==
    /\ editing_element = None
    /\ kind \in DOMAIN scene_elements

AddCamera ==
    /\ AddForm("cameras")
    /\ LET num_cameras == Len(scene_elements.cameras)
           base_x == num_cameras * Ft(2)
           base_y == Ft(-5)
       IN  \E hp \in HeightInputs, cam_rotation \in {0},
              fp \in FocalInputs :
             Mutate([scene_elements EXCEPT !.cameras = append(@,
                        [name |-> S_Default.Camera_ \o <<chr65(num_cameras)>>,
                         x |-> base_x,
                         y |-> base_y,
                         z |-> CAMERA_HEIGHT_PRESETS[hp].z,
                         rotation |-> cam_rotation,
                         focal_length |-> cam_focal(fp),
                         fov |-> cam_fov(fp)])],
                    Ev("add", "cameras", num_cameras))

AddLight ==
    /\ AddForm("lights")
    /\ \E lt \in LightTypeInputs, light_intensity \in IntensityInputs :
          Mutate([scene_elements EXCEPT !.lights = append(@,
                     [name |-> S_Default.Light_ \o str(Len(scene_elements.lights) + 1),
                      type |-> LightTypes[lt],
                      x |-> Ft(3),
                      y |-> Ft(0),
                      z |-> Ft(7),
                      rotation |-> 0,
                      intensity |-> light_intensity])],
                 Ev("add", "lights", Len(scene_elements.lights)))

AddActor ==
    /\ AddForm("actors")
    /\ \E add_movement \in MovementInputs :
          LET actor_data ==
                  [name |-> S_Default.Actor_ \o str(Len(scene_elements.actors) + 1),
                   x |-> Ft(0),
                   y |-> Ft(0),
                   notes |-> ""]
              with_move ==
                  [name |-> actor_data.name, x |-> actor_data.x,
                   y |-> actor_data.y, notes |-> actor_data.notes,
                   move_to_x |-> Ft(2), move_to_y |-> Ft(2)]
          IN  Mutate([scene_elements EXCEPT !.actors = append(@,
                         IF add_movement THEN with_move ELSE actor_data)],
                     Ev("add", "actors", Len(scene_elements.actors)))

AddSetPiece ==
    /\ AddForm("set_pieces")
    /\ Mutate([scene_elements EXCEPT !.set_pieces = append(@,
                  [name |-> S_Default.Furniture, type |-> "Table",
                   x |-> Ft(0), y |-> Ft(0)])],
              Ev("add", "set_pieces", Len(scene_elements.set_pieces)))

AddVehicle ==
    /\ AddForm("vehicles")
    /\ Mutate([scene_elements EXCEPT !.vehicles = append(@,
                  [name |-> S_Default.Car, type |-> "Car",
                   x |-> Ft(0), y |-> Ft(0), rotation |-> 0])],
              Ev("add", "vehicles", Len(scene_elements.vehicles)))

AddScreen ==
    /\ AddForm("screens")
    /\ Mutate([scene_elements EXCEPT !.screens = append(@,
                  [name |-> S_Default.Monitor, size |-> "24\" Monitor",
                   x |-> Ft(0), y |-> Ft(0), z |-> Ft(3)])],
              Ev("add", "screens", Len(scene_elements.screens)))

AddGreenScreen ==
    /\ AddForm("green_screens")
    /\ Mutate([scene_elements EXCEPT !.green_screens = append(@,
                  [name |-> S_Default.GreenScreen, size |-> "6x8 ft",
                   x |-> Ft(0), y |-> Ft(5), rotation |-> 0])],
              Ev("add", "green_screens", Len(scene_elements.green_screens)))

(***************************************************************************)
(* Sidebar: the edit forms (src/previz.py 729-830).                        *)
(***************************************************************************)
Abs(n) == IF n < 0 THEN -n ELSE n

\* min(height_preset_keys, key=lambda k: abs(CAMERA_HEIGHT_PRESETS[k] - z)):
\* the first preset at the least distance
closest_preset(z) ==
    CHOOSE p \in 1..Len(CAMERA_HEIGHT_PRESETS) :
        /\ \A q \in 1..Len(CAMERA_HEIGHT_PRESETS) :
              Abs(CAMERA_HEIGHT_PRESETS[p].z - z)
                  <= Abs(CAMERA_HEIGHT_PRESETS[q].z - z)
        /\ \A q \in 1..(p - 1) :
              Abs(CAMERA_HEIGHT_PRESETS[q].z - z)
                  > Abs(CAMERA_HEIGHT_PRESETS[p].z - z)

\* The preset the focal-length selectbox starts on: the first key that
\* contains f"{focal_length}mm", "50mm (Normal)" if there is none.
matching_preset(focal_length) ==
    LET current_focal_str == str(focal_length) \o <<"m", "m">>
        hits == {p \in 1..Len(FOV_PRESETS) :
                    Contains(FOV_PRESETS[p].key, current_focal_str)}
    IN  IF hits = {}
        THEN CHOOSE p \in 1..Len(FOV_PRESETS) : FOV_PRESETS[p].key = L_Preset.k50mm
        ELSE CHOOSE p \in hits : \A q \in hits : p <= q

EditForm(ty) ==
    /\ editing_element # None
    /\ editing_type = Some(ty)
    /\ AfterSidebar

\* "Save Changes" of the camera form; the widgets the user leaves alone hold
\* their pre-filled values.
SaveCamera ==
    /\ Tick
    /\ EditForm("Camera")
    /\ LET i == editing_element[1]
           cam == At(scene_elements.cameras, i)
       IN  \E cam_rotation \in {cam.rotation} \cup RotationInputs,
              fp \in {matching_preset(cam.focal_length)} :
             /\ scene_elements' = [scene_elements EXCEPT !.cameras =
                    setitem(@, i,
                        [name |-> cam.name,
                         x |-> cam.x,
                         y |-> cam.y,
                         z |-> CAMERA_HEIGHT_PRESETS[closest_preset(cam.z)].z,
                         rotation |-> cam_rotation,
                         focal_length |-> cam_focal(fp),
                         fov |-> cam_fov(fp)])]
             /\ event' = Ev("save", "cameras", i)
    /\ editing_element' = None
    /\ editing_type' = None
    /\ edit_clicked' = None
    /\ error' = ""
    /\ UNCHANGED <<scene_name, view_mode, uploaded_file>>
    /\ UNCHANGED harnessVars

\* "Save Changes" of the light form.
SaveLight ==
    /\ Tick
    /\ EditForm("Light")
    /\ LET i == editing_element[1]
           light == At(scene_elements.lights, i)
       IN  \E light_intensity \in {light.intensity} \cup IntensityInputs :
             /\ scene_elements' = [scene_elements EXCEPT !.lights =
                    setitem(@, i,
                        [name |-> light.name,
                         type |-> light.type,
                         x |-> light.x,
                         y |-> light.y,
                         z |-> light.z,
                         rotation |-> light.rotation,
                         intensity |-> light_intensity])]
             /\ event' = Ev("save", "lights", i)
    /\ editing_element' = None
    /\ editing_type' = None
    /\ edit_clicked' = None
    /\ error' = ""
    /\ UNCHANGED <<scene_name, view_mode, uploaded_file>>
    /\ UNCHANGED harnessVars

\* "Cancel" of either edit form.
CancelEdit ==
    /\ Tick
    /\ editing_element # None
    /\ editing_type \in {Some("Camera"), Some("Light")}
    /\ AfterSidebar
    /\ editing_element' = None
    /\ editing_type' = None
    /\ edit_clicked' = None
    /\ event' = Ev("cancel", "", editing_element[1])
    /\ error' = ""
    /\ UNCHANGED <<scene_elements, scene_name, view_mode, uploaded_file>>
    /\ UNCHANGED harnessVars

(***************************************************************************)
(* Sidebar: Quick Templates and Clear (src/previz.py 1052-1120).           *)
(***************************************************************************)
Cam(name, x, y, z, rotation, focal_length, fov) ==
    [name |-> name, x |-> x, y |-> y, z |-> z, rotation |-> rotation,
     focal_length |-> focal_length, fov |-> fov]
Light(name, type, x, y, z, rotation, intensity) ==
    [name |-> name, type |-> type, x |-> x, y |-> y, z |-> z,
     rotation |-> rotation, intensity |-> intensity]

TemplateNames == {"Three-Point Lighting", "Multi-Camera Interview",
                  "Green Screen Setup"}

\* The lists a template button assigns, by kind.
Template(t) ==
    IF t = "Three-Point Lighting" THEN
        [lights |-> <<
            Light(S_KeyLight, "Key Light", Ft(3), Ft(3), Ft(6), 225, 100),
            Light(S_Template.FillLight, "Fill Light", Ft(-3), Ft(3), Ft(5), 135, 50),
            Light(S_Template.BackLight, "Back Light", Ft(0), Ft(-3), Ft(7), 0, 70) >>,
         actors |-> <<
            [name |-> S_Template.Subject, x |-> Ft(0), y |-> Ft(0),
             notes |-> "Center frame"] >>,
         cameras |-> <<
            Cam(S_Template.MainCamera, Ft(0), Ft(-8), Ft(5), 0, 50, 47) >>]
    ELSE IF t = "Multi-Camera Interview" THEN
        [cameras |-> <<
            Cam(S_Template.CameraAWide, Ft(0), Ft(-8), Ft(5), 0, 35, 63),
            Cam(S_Template.CameraBClose, Ft(-3), Ft(-7), Half(9), 15, 85, 29),
            Cam(S_Template.CameraCOverShoulder, Ft(2), Ft(-2), Ft(4), 180, 50, 47) >>,
         actors |-> <<
            [name |-> S_Template.Interviewee, x |-> Ft(0), y |-> Ft(0),
             notes |-> "Seated, looking camera left"] >>,
         set_pieces |-> <<
            [name |-> S_Template.InterviewChair, type |-> "Chair",
             x |-> Ft(0), y |-> Ft(0)] >>]
    ELSE
        [green_screens |-> <<
            [name |-> S_Template.MainGreenScreen, size |-> "12x20 ft",
             x |-> Ft(0), y |-> Ft(8), rotation |-> 0] >>,
         cameras |-> <<
            Cam(S_Template.MainCamera, Ft(0), Ft(-6), Ft(5), 0, 50, 47) >>,
         lights |-> <<
            Light(S_Template.SubjectKey, "Key Light", Ft(3), Ft(-2), Ft(6), 200, 100),
            Light(S_Template.SubjectFill, "Fill Light", Ft(-3), Ft(-2), Ft(5), 160, 60),
            Light(S_Template.GreenScreenLightL, "LED Panel", Ft(-4), Ft(6), Ft(4),
                  90, 80),
            Light(S_Template.GreenScreenLightR, "LED Panel", Ft(4), Ft(6), Ft(4),
                  90, 80) >>,
         actors |-> <<
            [name |-> S_Template.Subject, x |-> Ft(0), y |-> Ft(2),
             notes |-> "Standing 6 ft from green screen"] >>]

\* The elements after a template button: each list the template names is
\* assigned, the other keys are not touched.
ApplyTo(elems, t) ==
    [k \in (DOMAIN elems) \cup (DOMAIN Template(t)) |->
        IF k \in DOMAIN Template(t) THEN Template(t)[k] ELSE elems[k]]

ApplyTemplate ==
    /\ AfterSidebar
    /\ \E t \in TemplateNames :
          Mutate(ApplyTo(scene_elements, t), Ev("template", t, -1))

\* A dict that names three of the kinds only.
Cleared_three == [k \in {"cameras", "lights", "actors"} |-> <<>>]
\* The dict "Clear All Elements" assigns.
Cleared == [k \in Kinds |-> <<>>]

ClearAll ==
    /\ AfterSidebar
    /\ Mutate(Cleared, Ev("clear", "", -1))

(***************************************************************************)
(* Tabs: the edit, copy and delete buttons (src/previz.py 1190-1326).      *)
(***************************************************************************)
EditableKinds == {"cameras", "lights"}
EditingTypeOf(kind) == IF kind = "cameras" THEN "Camera" ELSE "Light"

EditClick ==
    /\ Tick
    /\ ReachTabs
    /\ \E kind \in EditableKinds :
       \E i \in 0..(Len(scene_elements[kind]) - 1) :
          /\ editing_element' = Some(i)
          /\ editing_type' = Some(EditingTypeOf(kind))
          /\ edit_clicked' = Some(At(scene_elements[kind], i))
          /\ event' = Ev("edit", kind, i)
    /\ error' = ""
    /\ UNCHANGED <<scene_elements, scene_name, view_mode, uploaded_file>>
    /\ UNCHANGED harnessVars

\* The list after the copy button of row i.
CopyInto(kind, list, i) ==
    LET dup == duplicate_element(kind, At(list, i))
    IN  append(setitem(list, i, dup.element_data), dup.new_element)

CopyClick ==
    /\ ReachTabs
    /\ \E kind \in EditableKinds :
       \E i \in 0..(Len(scene_elements[kind]) - 1) :
          Mutate([scene_elements EXCEPT ![kind] = CopyInto(kind, @, i)],
                 Ev("copy", kind, i))

DeleteClick ==
    /\ ReachTabs
    /\ \E kind \in Kinds :
       \E i \in 0..(Len(scene_elements[kind]) - 1) :
          Mutate([scene_elements EXCEPT ![kind] = pop(@, i)],
                 Ev("delete", kind, i))

(***************************************************************************)
(* Main area: the view radio, "Save Scene", "Load Scene"                   *)
(* (src/previz.py 1125-1181).                                              *)
(***************************************************************************)
\* Values of datetime.now().isoformat()
Clock == {"2026-01-01T00:00:00"}

\* A scene with an element of every kind, an actor with and one without a
\* movement target.
FullElements ==
    [cameras |-> << Cam(S_Template.MainCamera, Ft(1), Ft(-6), Ft(5), 45, 50, 47) >>,
     lights |-> << Light(S_KeyLight, "Key Light", Ft(3), Ft(0), Ft(7), 0, 80) >>,
     actors |-> << [name |-> S_Template.Subject, x |-> Ft(0), y |-> Ft(0),
                    notes |-> "Standing"],
                   [name |-> S_Template.Interviewee, x |-> Ft(1), y |-> Ft(1),
                    notes |-> "", move_to_x |-> Ft(2), move_to_y |-> Ft(2)] >>,
     set_pieces |-> << [name |-> S_Default.Furniture, type |-> "Table",
                        x |-> Ft(0), y |-> Ft(0)] >>,
     vehicles |-> << [name |-> S_Default.Car, type |-> "Car",
                      x |-> Ft(0), y |-> Ft(0), rotation |-> 0] >>,
     screens |-> << [name |-> S_Default.Monitor, size |-> "24\" Monitor",
                     x |-> Ft(0), y |-> Ft(0), z |-> Ft(3)] >>,
     green_screens |-> << [name |-> S_Default.GreenScreen, size |-> "6x8 ft",
                           x |-> Ft(0), y |-> Ft(5), rotation |-> 0] >>]

\* A scene written by hand: a light of intensity 150 and a camera 5.5 ft
\* high with a 40 mm lens and a field of view of 55 degrees.
HotElements ==
    [Cleared EXCEPT
        !.cameras = << Cam(S_Template.MainCamera, Ft(0), Ft(-5), Half(11),
                           0, 40, 55) >>,
        !.lights = << Light(S_KeyLight, "Key Light", Ft(3), Ft(0), Ft(7),
                            0, 150) >>]

\* The "elements" of a document that lists the cameras only.
CamerasOnly == JObj([cameras |-> JArr(<<>>)])

\* A scene whose only element is a vehicle.
CarElements ==
    [Cleared EXCEPT !.vehicles =
        << [name |-> S_Default.Car, type |-> "Car",
            x |-> Ft(2), y |-> Ft(0), rotation |-> 90] >>]

\* The files the user uploads: a saved scene, a file that is no JSON, a
\* document without "elements", one without "scene_name", a scene written by
\* hand, and a document whose "elements" lists the cameras only.
HandDocs ==
    << [json |-> TRUE,
        text |-> JObj([scene_name |-> JStr("Loaded"),
                       created |-> JStr("2025-06-01T12:00:00"),
                       elements |-> dumps_elements(FullElements),
                       version |-> JStr("3.5-phase1")])],
       [json |-> FALSE, text |-> JStr("")],
       [json |-> TRUE,
        text |-> JObj([scene_name |-> JStr("Loaded"),
                       version |-> JStr("3.5-phase1")])],
       [json |-> TRUE,
        text |-> JObj([elements |-> dumps_elements(CarElements),
                       version |-> JStr("3.5-phase1")])],
       [json |-> TRUE,
        text |-> JObj([scene_name |-> JStr("Loaded"),
                       created |-> JStr("2025-06-01T12:00:00"),
                       elements |-> dumps_elements(HotElements),
                       version |-> JStr("3.5-phase1")])],
       [json |-> TRUE,
        text |-> JObj([scene_name |-> JStr("Loaded"),
                       created |-> JStr("2025-06-01T12:00:00"),
                       elements |-> CamerasOnly,
                       version |-> JStr("3.5-phase1")])] >>

\* The text typed into "Scene Name".
SceneNameInput ==
    \E name \in SceneNameInputs :
       /\ name # scene_name
       /\ Finish(name, view_mode, uploaded_file, Ev("scene_name", "", -1))

\* The "View Mode" radio.
ViewModeRadio ==
    /\ AfterSidebar
    /\ \E vm \in ViewModeInputs :
          /\ ViewModes[vm] # view_mode
          /\ Finish(scene_name, ViewModes[vm], uploaded_file,
                    Ev("view_mode", "", -1))

\* "Save Scene": the document is offered for download; the run goes on.
SaveScene ==
    /\ ReachUploader
    /\ Finish(scene_name, view_mode, uploaded_file, Ev("save_scene", "", -1))

\* A file is dropped on "Load Scene".
UploadFile ==
    /\ ReachUploader
    /\ \E d \in 1..Len(HandDocs) :
          Finish(scene_name, view_mode, Some(HandDocs[d]), Ev("upload", "", d))

\* The document "Save Scene" has just offered is dropped on "Load Scene".
UploadSaved ==
    /\ ReachUploader
    /\ event.op = "save_scene"
    /\ \E created \in Clock :
          Finish(scene_name, view_mode, Some(export_scene_json(created)),
                 Ev("upload", "saved", 0))

\* The file is removed from "Load Scene".
RemoveFile ==
    /\ ReachUploader
    /\ uploaded_file # None
    /\ Finish(scene_name, view_mode, None, Ev("remove_file", "", -1))

\* A run with no widget event (the one st.rerun() starts, or a manual rerun),
\* where it does anything: it loads the file the uploader holds, or it raises.
Rerun ==
    /\ \/ uploaded_file # None
       \/ ~ReachUploader
    /\ Finish(scene_name, view_mode, uploaded_file, Ev("rerun", "", -1))

(***************************************************************************)
(* Drawing (src/previz.py 107-154 and generate_3d_scene, 185-582). The     *)
(* figure's coordinates are floats; here they are integers in thousandths  *)
(* of a foot, rounded to the nearest, and angles are whole degrees.        *)
(***************************************************************************)
\* A stored length (half feet) as a drawn one (thousandths of a foot)
Milli(h) == 500 * h
\* a / b rounded to the nearest integer, b > 0
RoundDiv(a, b) == (2 * a + b) \div (2 * b)

\* 1000 * sin(d degrees) for d = 0..90
SinTable ==
    << 0, 17, 35, 52, 70, 87, 105, 122, 139, 156,
       174, 191, 208, 225, 242, 259, 276, 292, 309, 326,
       342, 358, 375, 391, 407, 423, 438, 454, 469, 485,
       500, 515, 530, 545, 559, 574, 588, 602, 616, 629,
       643, 656, 669, 682, 695, 707, 719, 731, 743, 755,
       766, 777, 788, 799, 809, 819, 829, 839, 848, 857,
       866, 875, 883, 891, 899, 906, 914, 921, 927, 934,
       940, 946, 951, 956, 961, 966, 970, 974, 978, 982,
       985, 988, 990, 993, 995, 996, 998, 999, 999, 1000,
       1000 >>

\* 1000 * np.sin(np.radians(angle_deg))
np_sin(angle_deg) ==
    LET d == angle_deg % 360
    IN  IF d <= 90 THEN SinTable[d + 1]
        ELSE IF d <= 180 THEN SinTable[180 - d + 1]
        ELSE IF d <= 270 THEN -SinTable[d - 180 + 1]
        ELSE -SinTable[360 - d + 1]
\* 1000 * np.cos(np.radians(angle_deg))
np_cos(angle_deg) == np_sin(angle_deg + 90)

rotate_point(x, y, angle_deg) ==
    LET cos_a == np_cos(angle_deg)
        sin_a == np_sin(angle_deg)
        new_x == RoundDiv(x * cos_a - y * sin_a, 1000)
        new_y == RoundDiv(x * sin_a + y * cos_a, 1000)
    IN  <<new_x, new_y>>

\* The apex and the two far corners of the frustum. np.tan(np.radians(fov/2))
\* is computed as sin(fov) / (1 + cos(fov)).
create_camera_frustum(x, y, z, rotation, fov) ==
    LET cone_length == Milli(Ft(4))
        cone_width == RoundDiv(np_sin(fov) * cone_length, 1000 + np_cos(fov))
        points == << <<0, 0>>, <<-cone_width, cone_length>>,
                     <<cone_width, cone_length>> >>
        rotated_points == [p \in 1..3 |->
                              rotate_point(points[p][1], points[p][2], rotation)]
    IN  [p \in 1..3 |-> <<x + rotated_points[p][1], y + rotated_points[p][2], z>>]

\* One divisor for every type of light
beam_divisor_same(light_type) == 15
\* The divisor of the intensity that gives the beam length in feet
beam_divisor(light_type) ==
    IF light_type \in {"Key Light", "Fill Light", "Back Light"} THEN 15
    ELSE IF light_type = "LED Panel" THEN 25
    ELSE IF light_type = "Practical" THEN 40
    ELSE 10

create_light_coverage(x, y, z, rotation, intensity, light_type) ==
    LET beam_length == RoundDiv(1000 * intensity, beam_divisor(light_type))
        d == rotate_point(0, beam_length, rotation)
    IN  <<x, y, z, x + d[1], y + d[2], z>>

\* What is drawn at height z only when the view is "Perspective (3D)".
draw_z_perspective(vmode, z) ==
    IF vmode = "Perspective (3D)" THEN z ELSE 0
\* What is drawn at its stored height in every view.
draw_z_stored(vmode, z) == z
\* z if view_mode != "Floor Plan" else 0
draw_z(vmode, z) == IF vmode # "Floor Plan" THEN z ELSE 0

\* go.Scatter3d(x=..., y=..., z=..., mode=...), with the element the loop was
\* at when the trace was added: its kind and its index in the kind's list.
Scatter3d(kind, i, mode, x, y, z) ==
    [kind |-> kind, i |-> i, mode |-> mode, x |-> x, y |-> y, z |-> z]

\* The outline of the stage floor
stage_outline ==
    LET stage_half == Milli(Ft(20)) \div 2
    IN  Scatter3d("stage", -1, "lines",
                  <<-stage_half, stage_half, stage_half, -stage_half, -stage_half>>,
                  <<-stage_half, -stage_half, stage_half, stage_half, -stage_half>>,
                  <<0, 0, 0, 0, 0>>)

\* The traces the loop over the cameras adds for cam, the i-th camera.
camera_traces(cam, i, vmode) ==
    LET x == Milli(cam.x)
        y == Milli(cam.y)
        z == Milli(cam.z)
        marker == Scatter3d("cameras", i, "markers+text",
                            <<x>>, <<y>>, <<draw_z(vmode, z)>>)
        frustum == create_camera_frustum(x, y, z, cam.rotation, cam.fov)
        d == rotate_point(0, Milli(Ft(3)), cam.rotation)
    IN  IF vmode # "Floor Plan"
        THEN << marker,
                Scatter3d("cameras", i, "lines",
                          <<frustum[1][1], frustum[2][1]>>,
                          <<frustum[1][2], frustum[2][2]>>,
                          <<frustum[1][3], frustum[2][3]>>),
                Scatter3d("cameras", i, "lines",
                          <<frustum[1][1], frustum[3][1]>>,
                          <<frustum[1][2], frustum[3][2]>>,
                          <<frustum[1][3], frustum[3][3]>>) >>
        ELSE << marker,
                Scatter3d("cameras", i, "lines",
                          <<x, x + d[1]>>, <<y, y + d[2]>>, <<0, 0>>) >>

light_traces(light, i, vmode) ==
    LET x == Milli(light.x)
        y == Milli(light.y)
        z == Milli(light.z)
        beam == create_light_coverage(x, y, z, light.rotation,
                                      light.intensity, light.type)
    IN  << Scatter3d("lights", i, "markers+text",
                     <<x>>, <<y>>, <<draw_z(vmode, z)>>),
           Scatter3d("lights", i, "lines",
                     <<beam[1], beam[4]>>, <<beam[2], beam[5]>>,
                     <<draw_z(vmode, beam[3]), draw_z(vmode, beam[6])>>) >>

actor_traces(actor, i, vmode) ==
    LET x == Milli(actor.x)
        y == Milli(actor.y)
        marker == Scatter3d("actors", i, "markers+text", <<x>>, <<y>>, <<0>>)
    IN  IF "move_to_x" \in DOMAIN actor /\ "move_to_y" \in DOMAIN actor
        THEN << marker,
                Scatter3d("actors", i, "lines",
                          <<x, Milli(actor.move_to_x)>>,
                          <<y, Milli(actor.move_to_y)>>, <<0, 0>>),
                Scatter3d("actors", i, "markers",
                          <<Milli(actor.move_to_x)>>,
                          <<Milli(actor.move_to_y)>>, <<0>>) >>
        ELSE << marker >>

set_piece_traces(piece, i, vmode) ==
    << Scatter3d("set_pieces", i, "markers+text",
                 <<Milli(piece.x)>>, <<Milli(piece.y)>>, <<0>>) >>

vehicle_traces(vehicle, i, vmode) ==
    << Scatter3d("vehicles", i, "markers+text",
                 <<Milli(vehicle.x)>>, <<Milli(vehicle.y)>>, <<0>>) >>

screen_traces(screen, i, vmode) ==
    << Scatter3d("screens", i, "markers+text",
                 <<Milli(screen.x)>>, <<Milli(screen.y)>>,
                 <<draw_z(vmode, Milli(screen.z))>>) >>

green_screen_traces(gs, i, vmode) ==
    LET x == Milli(gs.x)
        y == Milli(gs.y)
        width == Milli(Ft(8))
        height == Milli(Ft(8))
        left_point == rotate_point(-(width \div 2), 0, gs.rotation)
        right_point == rotate_point(width \div 2, 0, gs.rotation)
        wall_x == <<x + left_point[1], x + right_point[1]>>
        wall_y == <<y + left_point[2], y + right_point[2]>>
        label == Scatter3d("green_screens", i, "markers+text",
                           <<x>>, <<y>>, <<0>>)
    IN  IF vmode # "Floor Plan"
        THEN << Scatter3d("green_screens", i, "lines", wall_x, wall_y,
                          <<0, height>>),
                label >>
        ELSE << Scatter3d("green_screens", i, "lines", wall_x, wall_y,
                          <<0, 0>>),
                label >>

\* The traces one iteration of the loop over a kind adds.
element_traces(kind, e, i, vmode) ==
    IF kind = "cameras" THEN camera_traces(e, i, vmode)
    ELSE IF kind = "lights" THEN light_traces(e, i, vmode)
    ELSE IF kind = "actors" THEN actor_traces(e, i, vmode)
    ELSE IF kind = "set_pieces" THEN set_piece_traces(e, i, vmode)
    ELSE IF kind = "vehicles" THEN vehicle_traces(e, i, vmode)
    ELSE IF kind = "screens" THEN screen_traces(e, i, vmode)
    ELSE green_screen_traces(e, i, vmode)

\* The traces of the loop over a kind, from its i-th element on.
RECURSIVE kind_traces(_, _, _, _)
kind_traces(kind, list, i, vmode) ==
    IF i >= Len(list) THEN <<>>
    ELSE element_traces(kind, At(list, i), i, vmode)
             \o kind_traces(kind, list, i + 1, vmode)

\* The traces of the loops over the kinds, from the n-th kind on.
RECURSIVE scene_traces(_, _, _)
scene_traces(elems, n, vmode) ==
    IF n > Len(KindOrder) THEN <<>>
    ELSE kind_traces(KindOrder[n], elems[KindOrder[n]], 0, vmode)
             \o scene_traces(elems, n + 1, vmode)

\* The viewpoint: eye and up vector
scene_camera(vmode) ==
    IF vmode = "Floor Plan"
    THEN [eye |-> <<0, 0, 2500>>, up |-> <<0, 1, 0>>]
    ELSE IF vmode = "Side View"
    THEN [eye |-> <<2500, 0, 500>>, up |-> <<0, 0, 1>>]
    ELSE [eye |-> <<1500, -1500, 1500>>, up |-> <<0, 0, 1>>]

\* The figure: its traces in the order they are added, and its layout.
generate_3d_scene(elems, name, vmode) ==
    [data |-> <<stage_outline>> \o scene_traces(elems, 1, vmode),
     camera |-> scene_camera(vmode),
     grid_visible |-> (vmode # "Floor Plan"),
     title |-> <<"Scene: ", name, vmode>>]

(***************************************************************************)
(* The setup report (export_setup_report, src/previz.py 584-689). The text *)
(* is kept as its parts: the header, the sections with their numbered      *)
(* entries, and the lines of the equipment checklist.                      *)
(***************************************************************************)
\* The heading of a kind's section
SectionTitle(kind) ==
    IF kind = "cameras" THEN "CAMERAS"
    ELSE IF kind = "lights" THEN "LIGHTING"
    ELSE IF kind = "actors" THEN "TALENT"
    ELSE IF kind = "set_pieces" THEN "SET PIECES"
    ELSE IF kind = "vehicles" THEN "VEHICLES"
    ELSE IF kind = "screens" THEN "SCREENS/MONITORS"
    ELSE "GREEN SCREENS"

\* A section is written whenever the list is not empty.
section_shown_nonempty(kind, list) == list # <<>>
\* The sections of cameras, lights and actors are written unconditionally,
\* the others under "if st.session_state.scene_elements[kind]:".
section_shown(kind, list) ==
    kind \in {"cameras", "lights", "actors"} \/ list # <<>>

\* The entries of a section: enumerate(list, 1)
report_entries(list) ==
    IF list = <<>> THEN <<>>
    ELSE [i \in 1..Len(list) |-> [n |-> i, name |-> list[i].name]]

report_section(kind, list) ==
    [kind |-> kind, title |-> SectionTitle(kind), count |-> Len(list),
     entries |-> report_entries(list)]

\* The sections from the n-th kind on, in the order they are written.
RECURSIVE report_sections(_, _)
report_sections(elems, n) ==
    IF n > Len(KindOrder) THEN <<>>
    ELSE LET kind == KindOrder[n]
         IN  (IF section_shown(kind, elems[kind])
              THEN <<report_section(kind, elems[kind])>>
              ELSE <<>>)
                 \o report_sections(elems, n + 1)

\* A line of the equipment checklist
checklist_line(kind, list, label) ==
    [kind |-> kind, count |-> Len(list), label |-> label]

report_checklist(elems) ==
    << checklist_line("cameras", elems.cameras, "Camera(s)"),
       checklist_line("lights", elems.lights, "Light(s)") >>
    \o (IF elems.screens # <<>>
        THEN <<checklist_line("screens", elems.screens, "Monitor(s)")>>
        ELSE <<>>)
    \o (IF elems.green_screens # <<>>
        THEN <<checklist_line("green_screens", elems.green_screens,
                              "Green Screen(s)")>>
        ELSE <<>>)

\* Values of datetime.now().strftime('%Y-%m-%d %H:%M')
ReportClock == {"2026-01-01 00:00"}

export_setup_report(elems, name, now) ==
    [scene |-> name, date |-> now,
     sections |-> report_sections(elems, 1),
     checklist |-> report_checklist(elems)]

(***************************************************************************)
(* The application.                                                        *)
(***************************************************************************)
DupIdle ==
    /\ h_kind = "cameras"
    /\ h_src = Cam(S_Template.MainCamera, Ft(0), Ft(0), Ft(5), 0, 50, 47)
    /\ h_out = None
    /\ h_n = 0

ViewIdle ==
    /\ v_elements = Cleared
    /\ v_name = "Untitled Scene"
    /\ v_mode = "Floor Plan"
    /\ v_fig = None
    /\ v_report = None

HarnessIdle == DupIdle /\ ViewIdle

AppInit ==
    /\ scene_elements = [k \in Kinds |-> <<>>]
    /\ scene_name = "Untitled Scene"
    /\ view_mode = "Floor Plan"
    /\ editing_element = None
    /\ editing_type = None
    /\ uploaded_file = None
    /\ event = Ev("init", "", -1)
    /\ error = ""
    /\ runs = 0
    /\ edit_clicked = None

Init == AppInit /\ HarnessIdle

Next ==
    \/ AddCamera
    \/ AddLight
    \/ AddActor
    \/ AddSetPiece
    \/ AddVehicle
    \/ AddScreen
    \/ AddGreenScreen
    \/ SaveCamera
    \/ SaveLight
    \/ CancelEdit
    \/ ApplyTemplate
    \/ ClearAll
    \/ EditClick
    \/ CopyClick
    \/ DeleteClick
    \/ SceneNameInput
    \/ ViewModeRadio
    \/ SaveScene
    \/ UploadFile
    \/ UploadSaved
    \/ RemoveFile
    \/ Rerun

Spec == Init /\ [][Next]_vars

(***************************************************************************)
(* duplicate_element on its own: the kind, the name and the position of    *)
(* element_data are drawn from bounded sets, and the copy is duplicated    *)
(* again.                                                                  *)
(***************************************************************************)
NamePieces == {S_KeyLight, S_Copy, S_SpCopy, <<Space>>, <<"2">>, <<"9">>,
               <<SuperTwo>>}

\* The names made of at most n pieces.
RECURSIVE NamesOf(_)
NamesOf(n) ==
    IF n = 0 THEN {<<>>}
    ELSE NamesOf(n - 1) \cup {a \o b : a \in NamesOf(n - 1), b \in NamePieces}

\* Positions (x, y) of element_data
HPositions == {<<Ft(0), Ft(0)>>, <<Ft(1), Ft(1)>>, <<Ft(-3), Half(9)>>}

\* An element of the kind, as the forms and the templates build it.
HElement(kind, name, pos) ==
    [FullElements[kind][1] EXCEPT !.name = name, !.x = pos[1], !.y = pos[2]]

HInit ==
    /\ AppInit
    /\ ViewIdle
    /\ h_kind \in Kinds
    /\ \E name \in NamesOf(MaxPieces), pos \in HPositions :
          h_src = HElement(h_kind, name, pos)
    /\ h_out = None
    /\ h_n = 0

\* duplicate_element(h_kind, e), e being element_data at first and the last
\* copy afterwards.
HDuplicate ==
    /\ h_n < MaxIter
    /\ LET e == IF h_out = None THEN h_src ELSE h_out[1]
           dup == duplicate_element(h_kind, e)
       IN  /\ h_src' = e
           /\ h_out' = Some(dup.new_element)
    /\ h_n' = h_n + 1
    /\ UNCHANGED h_kind
    /\ UNCHANGED viewVars
    /\ UNCHANGED appVars

HNext == HDuplicate

SpecDup == HInit /\ [][HNext]_vars

(***************************************************************************)
(* generate_3d_scene and export_setup_report on their own: the scene is    *)
(* one the forms, the templates and "Load Scene" produce, its rotations    *)
(* set as the sliders allow, and the view is an option of the radio.       *)
(***************************************************************************)
\* The scenes before the rotation sliders are used
ViewBaseScenes ==
    LET starts == {Cleared, FullElements, CarElements}
    IN  starts \cup {ApplyTo(b, t) : b \in starts, t \in TemplateNames}

\* Positions of the rotation sliders
ViewRotations == {0, 45, 90, 180, 270, 359}

\* The scene with the rotation of every element that has one set to r.
Turned(elems, r) ==
    [k \in DOMAIN elems |->
        IF elems[k] = <<>> THEN <<>>
        ELSE [i \in 1..Len(elems[k]) |->
                 IF "rotation" \in DOMAIN elems[k][i]
                 THEN [elems[k][i] EXCEPT !.rotation = r]
                 ELSE elems[k][i]]]

\* Positions of the intensity slider: its ends
ViewIntensities == {0, 100}

\* The scene with every light set to a type of the selectbox, an intensity of
\* the slider and the rotation r.
Relit(elems, type, intensity, r) ==
    [k \in DOMAIN elems |->
        IF k # "lights" \/ elems[k] = <<>> THEN elems[k]
        ELSE [i \in 1..Len(elems[k]) |->
                 [elems[k][i] EXCEPT !.type = type, !.intensity = intensity,
                                     !.rotation = r]]]

ViewScenes ==
    ViewBaseScenes
        \cup {Turned(b, r) : b \in ViewBaseScenes, r \in ViewRotations}
        \cup {Relit(FullElements, LightTypes[t], n, r) :
                  t \in 1..Len(LightTypes), n \in ViewIntensities,
                  r \in ViewRotations}

VInit ==
    /\ AppInit
    /\ DupIdle
    /\ v_elements \in ViewScenes
    /\ v_name \in {"Untitled Scene"} \cup SceneNameInputs
    /\ v_mode \in {ViewModes[m] : m \in 1..Len(ViewModes)}
    /\ v_fig = None
    /\ v_report = None

\* fig = generate_3d_scene(view_mode)
VRender ==
    /\ v_fig = None
    /\ v_fig' = Some(generate_3d_scene(v_elements, v_name, v_mode))
    /\ UNCHANGED <<v_elements, v_name, v_mode, v_report>>
    /\ UNCHANGED dupVars
    /\ UNCHANGED appVars

\* report = export_setup_report()
VReport ==
    /\ v_report = None
    /\ \E now \in ReportClock :
          v_report' = Some(export_setup_report(v_elements, v_name, now))
    /\ UNCHANGED <<v_elements, v_name, v_mode, v_fig>>
    /\ UNCHANGED dupVars
    /\ UNCHANGED appVars

VNext == VRender \/ VReport

SpecView == VInit /\ [][VNext]_vars

(***************************************************************************)
(* Properties of duplicate_element, checked under SpecDup.                 *)
(***************************************************************************)
\* name ends with "Copy" (spaces after it aside)
EndsWithCopy(name) ==
    OccursAt(strip(name), S_Copy, Len(strip(name)) - Len(S_Copy) + 1)

\* s is a decimal integer
IsInteger(s) == Len(s) > 0 /\ \A i \in 1..Len(s) : s[i] \in DigitChars

\* name ends with "Copy" followed by an integer
EndsWithCopyInt(name) ==
    \E k \in 1..Len(name) :
        /\ OccursAt(name, S_Copy, k)
        /\ IsInteger(strip(SubSeq(name, k + Len(S_Copy), Len(name))))

\* C3: iterated duplication numbers the copies: "Key Light" gives
\* "Key Light Copy", "Key Light Copy" gives "Key Light Copy 2",
\* "Key Light Copy 2" gives "Key Light Copy 3", and a name ending in "Copy N"
\* gives the same prefix with "Copy N+1".
C3_IteratedNumbering ==
    h_out # None =>
        LET n == h_src.name
            c == h_out[1].name
        IN  /\ n = S_KeyLight => c = S_KeyLight \o S_SpCopy
            /\ n = S_KeyLight \o S_SpCopy
                  => c = S_KeyLight \o S_SpCopy \o <<Space, "2">>
            /\ n = S_KeyLight \o S_SpCopy \o <<Space, "2">>
                  => c = S_KeyLight \o S_SpCopy \o <<Space, "3">>
            /\ \A k \in 1..Len(n) :
                  LET digits == SubSeq(n, k + Len(S_Copy) + 1, Len(n))
                  IN  (/\ OccursAt(n, S_Copy \o <<Space>>, k)
                       /\ IsInteger(digits))
                      => c = SubSeq(n, 1, k - 1) \o S_Copy \o <<Space>>
                                 \o str(int(digits) + 1)

\* C4: a source name that ends neither with "Copy" nor with "Copy" followed
\* by an integer (a name that holds "Copy" earlier included) gives the copy
\* the name "{name} Copy".
C4_PlainNameGetsCopy ==
    h_out # None =>
        ((~EndsWithCopy(h_src.name) /\ ~EndsWithCopyInt(h_src.name))
            => h_out[1].name = h_src.name \o S_SpCopy)

\* C5: the copy is at the source position plus (2, 2) ft for a camera and
\* plus (1, 1) ft for every other kind; every field but name, x and y is the
\* source's.
C5_DuplicateOffset ==
    h_out # None =>
        LET src == h_src
            new == h_out[1]
            d == IF h_kind = "cameras" THEN Ft(2) ELSE Ft(1)
        IN  /\ new.x = src.x + d
            /\ new.y = src.y + d
            /\ DOMAIN new = DOMAIN src
            /\ \A f \in (DOMAIN src) \ {"name", "x", "y"} : new[f] = src[f]

\* A camera at (0, 0) has been duplicated to (2, 2), and its copy has been
\* duplicated in turn.
C5_Witness ==
    /\ h_kind = "cameras"
    /\ h_n = 2
    /\ h_src.x = Ft(2) /\ h_src.y = Ft(2)
    /\ h_out # None
    /\ h_out[1].x = Ft(4) /\ h_out[1].y = Ft(4)

(***************************************************************************)
(* Properties of the scene store, checked under Spec.                      *)
(***************************************************************************)
\* The step is a script run triggered by one of the events ops.
StepOf(ops) == runs' # runs /\ event'.op \in ops

\* C1: removing the element at index i of a kind's list gives the same list
\* without slot i: the elements before i keep their index, the elements
\* after i move down by one, the length drops by one.
C1_DeleteShifts ==
    [][StepOf({"delete"}) =>
          LET old == scene_elements[event'.kind]
              new == scene_elements'[event'.kind]
              i == event'.id
          IN  /\ Len(new) = Len(old) - 1
              /\ \A j \in 0..(Len(old) - 1) :
                    /\ j < i => At(new, j) = At(old, j)
                    /\ j > i => At(new, j - 1) = At(old, j)]_vars

\* Lights [Key, Fill, Back]: two removals at index 0 have left [Back].
C1_Witness ==
    /\ event = Ev("delete", "lights", 0)
    /\ runs = 3
    /\ scene_elements.lights = <<Template("Three-Point Lighting").lights[3]>>

\* Where the element at index j of the old list is after the operation op at
\* index i, for an element that stays.
Stays(op, i, j) == op \in {"save", "delete"} => j # i
NewIndex(op, i, j) == IF op = "delete" /\ j > i THEN j - 1 ELSE j

\* C2: across add, update, duplicate and remove the elements of a kind that
\* stay keep their relative order, and a new element is at the end.
C2_OrderPreserved ==
    [][StepOf({"add", "save", "copy", "delete"}) =>
          \A k \in DOMAIN scene_elements :
             IF k # event'.kind
             THEN scene_elements'[k] = scene_elements[k]
             ELSE
             LET old == scene_elements[k]
                 new == scene_elements'[k]
                 op == event'.op
                 i == event'.id
                 staying == {j \in 0..(Len(old) - 1) : Stays(op, i, j)}
             IN  /\ \A j \in staying :
                       /\ InRange(new, NewIndex(op, i, j))
                       /\ At(new, NewIndex(op, i, j)) = At(old, j)
                 /\ \A j1, j2 \in staying :
                       j1 < j2 => NewIndex(op, i, j1) < NewIndex(op, i, j2)
                 /\ Len(new) = Cardinality(staying)
                        + (IF op \in {"add", "save", "copy"} THEN 1 ELSE 0)
                 /\ op \in {"add", "copy"} =>
                       \A j \in staying : NewIndex(op, i, j) < Len(new) - 1]_vars

\* The first of three cameras has been copied: the cameras hold the three
\* earlier ones in their order, then the copy.
C2_Witness ==
    /\ event = Ev("copy", "cameras", 0)
    /\ Len(scene_elements.cameras) = 4
    /\ SubSeq(scene_elements.cameras, 1, 3)
           = Template("Multi-Camera Interview").cameras

\* C6: the copy button leaves the source and every other element of every
\* kind as they were and appends exactly one element, the copy, to the kind;
\* the copy is an object of its own, so what is done to it is not done to
\* the source.
C6_DuplicateFrame ==
    [][StepOf({"copy"}) =>
          LET k == event'.kind
              i == event'.id
              old == scene_elements[k]
              new == scene_elements'[k]
          IN  /\ \A o \in (DOMAIN scene_elements) \ {k} :
                    scene_elements'[o] = scene_elements[o]
              /\ DOMAIN scene_elements' = DOMAIN scene_elements
              /\ Len(new) = Len(old) + 1
              /\ \A j \in 0..(Len(old) - 1) : At(new, j) = At(old, j)
              /\ At(new, Len(old)).name # At(old, i).name
              /\ At(new, Len(old)).x # At(old, i).x
              /\ [At(new, Len(old)) EXCEPT !.name = At(old, i).name,
                                           !.x = At(old, i).x,
                                           !.y = At(old, i).y] = At(old, i)
              /\ scene_name' = scene_name]_vars

\* The second of three lights has been copied: the list holds the three
\* lights as they were, then the copy.
C6_Witness ==
    /\ event = Ev("copy", "lights", 1)
    /\ Len(scene_elements.lights) = 4
    /\ SubSeq(scene_elements.lights, 1, 3)
           = Template("Three-Point Lighting").lights
    /\ scene_elements.lights[4].name = S_Template.FillLight \o S_SpCopy

\* C7: after a template button every kind's list is the template's, and a
\* kind the template does not list is empty.
C7_TemplateReplacesAll ==
    event.op = "template" =>
        \A k \in Kinds :
            /\ k \in DOMAIN scene_elements
            /\ scene_elements[k] =
                  IF k \in DOMAIN Template(event.kind)
                  THEN Template(event.kind)[k] ELSE <<>>

\* The scene a document denotes, for a document that has both keys.
DocElements(file) == json_loads(file.text).elements
DocSceneName(file) == json_loads(file.text).scene_name

\* C8: import is atomic: after a file is dropped on "Load Scene" either the
\* elements and the scene name are both the document's, or the import failed
\* and both are what they were.
C8_ImportAtomic ==
    [][StepOf({"upload"}) =>
          \/ /\ error' = ""
             /\ scene_elements' = DocElements(uploaded_file'[1])
             /\ scene_name' = DocSceneName(uploaded_file'[1])
          \/ /\ error' # ""
             /\ scene_elements' = scene_elements
             /\ scene_name' = scene_name]_vars

\* C9: export followed by import is the identity on the scene content: the
\* document export_scene_json writes, loaded into any store, gives the
\* elements (per kind, in order, field by field) and the scene name of the
\* scene it was written from.
C9_RoundTrip ==
    \A created \in Clock :
        LET r == LoadScene(Cleared, "", export_scene_json(created))
        IN  /\ r.error = ""
            /\ r.scene_elements = scene_elements
            /\ r.scene_name = scene_name

\* A scene with an element of every kind, an actor with and one without a
\* movement target, has been saved and the saved document loaded.
C9_Witness ==
    /\ event = Ev("upload", "saved", 0)
    /\ error = ""
    /\ uploaded_file # None
    /\ DocElements(uploaded_file[1]) = scene_elements
    /\ \A k \in Kinds : Len(scene_elements[k]) >= 1
    /\ \E a \in 1..Len(scene_elements.actors) :
          "move_to_x" \in DOMAIN scene_elements.actors[a]
    /\ \E a \in 1..Len(scene_elements.actors) :
          "move_to_x" \notin DOMAIN scene_elements.actors[a]

\* C10: no reachable state holds a light whose intensity is outside 0..100
\* (a mutation that would store one is rejected).
C10_IntensityInRange ==
    "lights" \in DOMAIN scene_elements =>
        \A i \in 1..Len(scene_elements.lights) :
            scene_elements.lights[i].intensity \in 0..100

\* C11: an update (Save Changes) of slot id replaces exactly that slot: the
\* length of the kind's list is unchanged, every other slot is unchanged, and
\* every other kind is unchanged.
C11_UpdateFrame ==
    [][StepOf({"save"}) =>
          LET k == event'.kind
              i == event'.id
              old == scene_elements[k]
              new == scene_elements'[k]
          IN  /\ InRange(old, i)
              /\ Len(new) = Len(old)
              /\ \A j \in 0..(Len(old) - 1) :
                    j # i => At(new, j) = At(old, j)
              /\ DOMAIN scene_elements' = DOMAIN scene_elements
              /\ \A o \in (DOMAIN scene_elements) \ {k} :
                    scene_elements'[o] = scene_elements[o]]_vars

\* The second of three different cameras has been saved with a new rotation;
\* its neighbours are the template's.
C11_Witness ==
    /\ event = Ev("save", "cameras", 1)
    /\ Len(scene_elements.cameras) = 3
    /\ At(scene_elements.cameras, 1).rotation = 90
    /\ At(scene_elements.cameras, 0).name = S_Template.CameraAWide
    /\ At(scene_elements.cameras, 2).name = S_Template.CameraCOverShoulder

\* C12: an edit addressed to an id that is out of range fails as a
\* recoverable not-found error: the run that reports it changes no element
\* and does nothing else, and the edit that could not be served is over, so
\* that the session goes on.
C12_StaleEditRecoverable ==
    [][(runs' # runs /\ error' = "IndexError") =>
          /\ scene_elements' = scene_elements
          /\ editing_element' = None]_vars

FloorPlanBuilt == v_fig # None /\ v_mode = "Floor Plan"

\* C15: in Floor Plan view every z-coordinate of every trace (markers,
\* direction arrows, light beams, green-screen walls, movement arrows) is 0,
\* whatever heights the scene stores.
C15_FloorPlanFlat ==
    FloorPlanBuilt =>
        \A t \in 1..Len(v_fig[1].data) :
            \A j \in 1..Len(v_fig[1].data[t].z) : v_fig[1].data[t].z[j] = 0

\* The floor plan has been built of a scene whose camera, light and screen
\* are stored above the floor, with a turned green screen and an actor who
\* moves.
C15_Witness ==
    /\ FloorPlanBuilt
    /\ \E i \in 1..Len(v_elements.cameras) : v_elements.cameras[i].z > 0
    /\ \E i \in 1..Len(v_elements.lights) : v_elements.lights[i].z > 0
    /\ \E i \in 1..Len(v_elements.screens) : v_elements.screens[i].z > 0
    /\ \E i \in 1..Len(v_elements.green_screens) :
          v_elements.green_screens[i].rotation = 45
    /\ \E i \in 1..Len(v_elements.actors) :
          "move_to_x" \in DOMAIN v_elements.actors[i]
    /\ Len(v_fig[1].data) > 10

\* C16: in Floor Plan view every camera, every green screen and every
\* vehicle has, besides its marker, an indicator of its direction or extent:
\* a line trace.
C16_FloorPlanIndicators ==
    FloorPlanBuilt =>
        \A k \in {"cameras", "green_screens", "vehicles"} :
            \A i \in 0..(Len(v_elements[k]) - 1) :
                /\ \E t \in 1..Len(v_fig[1].data) :
                      /\ v_fig[1].data[t].kind = k
                      /\ v_fig[1].data[t].i = i
                      /\ v_fig[1].data[t].mode = "markers+text"
                /\ \E t \in 1..Len(v_fig[1].data) :
                      /\ v_fig[1].data[t].kind = k
                      /\ v_fig[1].data[t].i = i
                      /\ v_fig[1].data[t].mode = "lines"

\* C17: Perspective and Side View give the same traces in the same order
\* (positions, heights, geometry of every element); what differs between the
\* two figures is confined to the viewpoint and the title.
C17_SameTraces3D ==
    (v_fig # None /\ v_mode = "Side View (3D)") =>
        \A persp \in {generate_3d_scene(v_elements, v_name,
                                        "Perspective (3D)")} :
            /\ v_fig[1].data = persp.data
            /\ v_fig[1].grid_visible = persp.grid_visible

\* The side view has been built of a scene whose camera, light and screen
\* are stored above the floor, with a turned green screen.
C17_Witness ==
    /\ v_fig # None
    /\ v_mode = "Side View (3D)"
    /\ \E i \in 1..Len(v_elements.cameras) :
          v_elements.cameras[i].z > 0 /\ v_elements.cameras[i].rotation = 45
    /\ \E i \in 1..Len(v_elements.lights) : v_elements.lights[i].z > 0
    /\ \E i \in 1..Len(v_elements.screens) : v_elements.screens[i].z > 0
    /\ v_elements.green_screens # <<>>
    /\ \E t \in 1..Len(v_fig[1].data) :
          \E j \in 1..Len(v_fig[1].data[t].z) : v_fig[1].data[t].z[j] > 0

\* C18: the checklist of the report has a line for a kind exactly when the
\* kind has at least one element, for each of the seven kinds.
C18_ChecklistIffNonEmpty ==
    v_report # None =>
        \A k \in Kinds :
            (\E l \in 1..Len(v_report[1].checklist) :
                v_report[1].checklist[l].kind = k)
                <=> Len(v_elements[k]) > 0

\* The kinds whose section is always written
AlwaysShown == <<"cameras", "lights", "actors">>
\* The place of a kind in the report's order of kinds
KindPos(kind) == CHOOSE n \in 1..Len(KindOrder) : KindOrder[n] = kind

\* C19: the report has the sections of cameras, lights and actors, in that
\* order, even when they are empty, then a section for each of set pieces,
\* vehicles, screens and green screens, in that order, exactly when the kind
\* is not empty; a section has one entry per element, numbered 1..n in the
\* order of the kind's list.
C19_ReportSections ==
    v_report # None =>
        \A sections \in {v_report[1].sections} :
            /\ Len(sections) >= 3
            /\ \A n \in 1..3 :
                  /\ sections[n].kind = AlwaysShown[n]
                  /\ sections[n].title = SectionTitle(AlwaysShown[n])
            /\ \A k \in Kinds :
                  (\E n \in 1..Len(sections) : sections[n].kind = k)
                      <=> (KindPos(k) <= 3 \/ v_elements[k] # <<>>)
            /\ \A a, b \in 1..Len(sections) :
                  a < b => KindPos(sections[a].kind) < KindPos(sections[b].kind)
            /\ \A n \in 1..Len(sections) :
                  LET list == v_elements[sections[n].kind]
                  IN  /\ sections[n].title = SectionTitle(sections[n].kind)
                      /\ sections[n].count = Len(list)
                      /\ Len(sections[n].entries) = Len(list)
                      /\ \A i \in 1..Len(list) :
                            /\ sections[n].entries[i].n = i
                            /\ sections[n].entries[i].name = list[i].name

\* The report has been written of a scene with several cameras, no light, a
\* set piece and a vehicle, and neither screen nor green screen.
C19_Witness ==
    /\ v_report # None
    /\ Len(v_elements.cameras) >= 2
    /\ v_elements.lights = <<>>
    /\ v_elements.vehicles # <<>>
    /\ v_elements.screens = <<>>
    /\ v_elements.green_screens = <<>>
    /\ Len(v_report[1].sections) = 5

\* The offset of length L that points clockwise from north (+y) by r degrees,
\* r a multiple of 90.
Clockwise(L, r) ==
    IF r = 0 THEN <<0, L>>
    ELSE IF r = 90 THEN <<L, 0>>
    ELSE IF r = 180 THEN <<0, -L>>
    ELSE <<-L, 0>>

\* The line trace the floor plan holds for the i-th element of a kind.
LineOf(kind, i) ==
    LET t == CHOOSE n \in 1..Len(v_fig[1].data) :
                 /\ v_fig[1].data[n].kind = kind
                 /\ v_fig[1].data[n].i = i
                 /\ v_fig[1].data[n].mode = "lines"
    IN  v_fig[1].data[t]

\* C20: rotation is clockwise from north: the forward offset (0, L) rotated
\* by an element's rotation is (0, L) at 0, (L, 0) at 90, (0, -L) at 180 and
\* (-L, 0) at 270 degrees; camera arrows and light beams are drawn this way.
C20_RotationClockwise ==
    FloorPlanBuilt =>
        /\ \A i \in 0..(Len(v_elements.cameras) - 1) :
              LET cam == At(v_elements.cameras, i)
                  arrow == LineOf("cameras", i)
              IN  cam.rotation \in {0, 90, 180, 270} =>
                     <<arrow.x[2] - arrow.x[1], arrow.y[2] - arrow.y[1]>>
                         = Clockwise(Milli(Ft(3)), cam.rotation)
        /\ \A i \in 0..(Len(v_elements.lights) - 1) :
              LET light == At(v_elements.lights, i)
                  beam == LineOf("lights", i)
                  L == RoundDiv(1000 * light.intensity,
                                beam_divisor(light.type))
              IN  light.rotation \in {0, 90, 180, 270} =>
                     <<beam.x[2] - beam.x[1], beam.y[2] - beam.y[1]>>
                         = Clockwise(L, light.rotation)

(***************************************************************************)
(* Properties of the light beams, checked under SpecView.                  *)
(***************************************************************************)
\* The divisor the documentation gives for a type of light
BeamK(type) ==
    CASE type \in {"Key Light", "Fill Light", "Back Light"} -> 15
      [] type = "LED Panel" -> 25
      [] type = "Practical" -> 40
      [] type = "Natural Light" -> 10

\* The figure has been built.
BeamsBuilt == v_fig # None

\* C21: the beam of every light starts at the light's position, and its
\* length L satisfies L * k(type) = intensity, k being 15 for key, fill and
\* back lights, 25 for LED panels, 40 for practicals and 10 for natural
\* light; at intensity 0 the beam ends where it starts, for every type and
\* rotation, and the figure is built. Lengths are in thousandths of a
\* foot, so the product is within half a divisor of 1000 * intensity, and
\* the drawn length is within a hundredth of a foot of L.
C21_BeamLength ==
    BeamsBuilt =>
        \A i \in 0..(Len(v_elements.lights) - 1) :
            \A light \in {At(v_elements.lights, i)} :
            \A beam \in {LineOf("lights", i)} :
                LET k == BeamK(light.type)
                    dx == beam.x[2] - beam.x[1]
                    dy == beam.y[2] - beam.y[1]
                    sq == dx * dx + dy * dy
                IN  /\ beam.x[1] = Milli(light.x)
                    /\ beam.y[1] = Milli(light.y)
                    /\ beam.z[1] = draw_z(v_mode, Milli(light.z))
                    /\ beam.z[2] = beam.z[1]
                    /\ \E L \in 0..10000 :
                          /\ 2 * Abs(L * k - 1000 * light.intensity) <= k
                          /\ sq <= (L + 10) * (L + 10)
                          /\ L > 10 => sq >= (L - 10) * (L - 10)
                    /\ light.intensity = 0 => (dx = 0 /\ dy = 0)

\* A figure has been built of a practical at intensity 0 turned by 45
\* degrees: its beam ends where it starts.
C21_Witness ==
    /\ v_fig # None
    /\ v_elements.lights # <<>>
    /\ v_elements.lights[1].type = "Practical"
    /\ v_elements.lights[1].intensity = 0
    /\ v_elements.lights[1].rotation = 45
    /\ LineOf("lights", 0).x[2] = LineOf("lights", 0).x[1]
    /\ LineOf("lights", 0).y[2] = LineOf("lights", 0).y[1]

(***************************************************************************)
(* Properties of the stored cameras and of edit mode, checked under Spec.  *)
(***************************************************************************)
\* The FOV_PRESETS entry of a focal length, 0 if there is none
TableEntry(focal_length) ==
    LET hits == {p \in 1..Len(FOV_PRESETS) : cam_focal(p) = focal_length}
    IN  IF hits = {} THEN 0 ELSE CHOOSE p \in hits : TRUE

\* C22: in every reachable state every stored camera has a focal length that
\* is one of the entries of FOV_PRESETS and the field of view the table gives
\* for it.
C22_CameraOnTable ==
    "cameras" \in DOMAIN scene_elements =>
        \A i \in 1..Len(scene_elements.cameras) :
            LET cam == scene_elements.cameras[i]
            IN  /\ TableEntry(cam.focal_length) # 0
                /\ cam.fov = cam_fov(TableEntry(cam.focal_length))

\* The list editing_type names: cameras for "Camera", lights for "Light"
EditedKind == IF editing_type = Some("Camera") THEN "cameras" ELSE "lights"

\* C23: whenever editing_element is not None it is a valid index into the
\* list of the kind editing_type names, whatever was deleted, duplicated,
\* cleared, replaced by a template or imported while the edit form was open.
C23_EditIndexValid ==
    editing_element # None =>
        /\ editing_type \in {Some("Camera"), Some("Light")}
        /\ EditedKind \in DOMAIN scene_elements
        /\ InRange(scene_elements[EditedKind], editing_element[1])

\* The element whose edit button was clicked is still in its kind's list.
ClickedIn(list) ==
    \E j \in 0..(Len(list) - 1) : Some(At(list, j)) = edit_clicked

\* C24: "Save Changes" overwrites the very element whose edit button was
\* clicked: while that element is in the list, wherever deletions of other
\* elements have moved it, every slot the save modifies held that element
\* before the save.
C24_SaveHitsClicked ==
    [][(StepOf({"save"}) /\ ClickedIn(scene_elements[event'.kind])) =>
          LET k == event'.kind
              old == scene_elements[k]
              new == scene_elements'[k]
          IN  \A j \in 0..(Len(old) - 1) :
                 At(new, j) # At(old, j) => Some(At(old, j)) = edit_clicked]_vars

\* C25: edit mode can always be left: in every reachable state with
\* editing_element not None the run builds the edit form, which offers
\* "Save Changes" and "Cancel"; no state is stuck in edit mode.
C25_EditFormOffered ==
    editing_element # None =>
        /\ editing_type \in {Some("Camera"), Some("Light")}
        /\ SidebarError(scene_elements, editing_element, editing_type) = ""

(***************************************************************************)
(* Properties of "Load Scene" and of the shape of the store, checked under *)
(* Spec.                                                                   *)
(***************************************************************************)
\* C26: an uploaded document is imported once: a run that no widget event
\* started, with the document still in the uploader, leaves the elements and
\* the scene name as the last add, delete, duplicate, edit, template or
\* clear left them.
C26_ImportedOnce ==
    [][(StepOf({"rerun"}) /\ uploaded_file # None) =>
          /\ scene_elements' = scene_elements
          /\ scene_name' = scene_name]_vars

\* C27: in every reachable state the elements mapping has exactly the seven
\* kinds as its keys, each mapped to a sequence, also after "Clear All", the
\* templates and the import of a document.
C27_SevenKinds ==
    /\ DOMAIN scene_elements = Kinds
    /\ \A k \in DOMAIN scene_elements :
          DOMAIN scene_elements[k] = 1..Len(scene_elements[k])

\* C28: "Save Changes" pressed with every widget of the edit form left as it
\* was pre-filled (the sliders are where the stored rotation and intensity
\* put them) leaves every stored field of the element as it was, also for a
\* camera whose height is no height preset and whose focal length is not in
\* FOV_PRESETS.
C28_SaveUntouched ==
    [][StepOf({"save"}) =>
          LET old == At(scene_elements[event'.kind], event'.id)
              new == At(scene_elements'[event'.kind], event'.id)
          IN  (/\ new.rotation = old.rotation
               /\ event'.kind = "lights" => new.intensity = old.intensity)
                  => new = old]_vars

====
